---- MODULE Spec2Model ----
(***************************************************************************)
(* Model of server/app/src/data_sources.rs: the MySQL connection pool      *)
(* provider, the five VecDataSource fetchers of MySqlDataSource and the    *)
(* coercions they apply to the metric column of playerdata.                *)
(***************************************************************************)
EXTENDS Integers, Sequences, FiniteSets, TLC

VARIABLES
    kind,       \* which VecDataSource impl the data source is used through
    store,      \* rows of the playerdata table, in the order SELECT returns them
    netUp,      \* whether the store answers on the network
    callers,    \* the fetch() invocations the application makes
    pc,         \* per invocation: "idle", "acquiring", "running", "done"
    outcome,    \* per invocation: the anyhow::Result fetch() returned
    snap,       \* per invocation: the rows the store returned for its SELECT
    selects,    \* per invocation: number of queries handed to the pool
    inUse,      \* connections of connection_pool currently checked out
    arg,        \* a column value handed to a coercion
    res,        \* what the coercion produced
    config,     \* SourceDatabaseConfig given to create_connection_pool
    account,    \* what the store really accepts: user, password, database
    created     \* result of a *_data_source constructor

vars == <<kind, store, netUp, callers, pc, outcome, snap, selects, inUse,
          arg, res, config, account, created>>

fetchVars == <<kind, store, netUp, callers, pc, outcome, snap, selects, inUse>>
coerceVars == <<arg, res>>
connVars == <<config, account, created>>

----------------------------------------------------------------------------
(* Fixed-width integers.  TLC integers are 32 bits wide, so a u64 is kept  *)
(* as four 16-bit limbs, least significant first.                          *)

LimbBase == 2^16

\* smallest and largest values of Rust's i32
I32Min == -(2^30) - 2^30
I32Max == (2^30 - 1) + 2^30

U64Zero == <<0, 0, 0, 0>>
U64Max == <<LimbBase - 1, LimbBase - 1, LimbBase - 1, LimbBase - 1>>

\* `v as u64` for v : i32 -- sign extension to 64 bits, then reinterpretation
\* (arithmetic shift right by 16 is floor division by 2^16).
I32AsU64Clamp(v) ==
    IF v < 0 THEN U64Zero ELSE <<v % LimbBase, v \div LimbBase, 0, 0>>
I32AsU64(v) ==
    LET s1 == v \div LimbBase
        s2 == s1 \div LimbBase
        s3 == s2 \div LimbBase
    IN  <<v % LimbBase, s1 % LimbBase, s2 % LimbBase, s3 % LimbBase>>

----------------------------------------------------------------------------
(* f64 values of the build_count column.  A value is sign, integer part    *)
(* (five limbs, so that values beyond 2^64 exist) and a decimal fraction   *)
(* in units of 1/FracScale.  A decimal fraction stands for the double      *)
(* nearest to it: only the fraction one half is a tie, and integer + 1/2   *)
(* is a double exactly.                                                    *)

FracScale == 2 * 5

\* magnitude + 1 on a limb sequence, carrying
RECURSIVE IncLimbs(_)
IncLimbs(l) ==
    IF l = <<>> THEN <<>>
    ELSE IF Head(l) + 1 < LimbBase THEN <<Head(l) + 1>> \o Tail(l)
    ELSE <<0>> \o IncLimbs(Tail(l))

\* f64::round -- nearest integer, half away from zero
F64RoundDown(x) == [neg |-> x.neg, int |-> x.int, frac |-> 0]
F64Round(x) ==
    [neg |-> x.neg,
     int |-> IF 2 * x.frac >= FracScale THEN IncLimbs(x.int) ELSE x.int,
     frac |-> 0]

\* `f as u64` -- saturating float-to-int cast (negative -> 0, too large -> MAX)
F64AsU64(x) ==
    IF x.neg THEN U64Zero
    ELSE IF x.int[5] # 0 THEN U64Max
    ELSE SubSeq(x.int, 1, 4)

\* build_count: row.try_get::<f64, _>("build_count")?.round() as u64
BuildCountOf(x) == F64AsU64(F64Round(x))

----------------------------------------------------------------------------
(* chrono::DateTime<Utc>::to_rfc3339, and an RFC 3339 reader.              *)

Digits == <<"0", "1", "2", "3", "4", "5", "6", "7", "8", "9">>
IsDigit(c) == \E i \in 1..10 : Digits[i] = c
DigitVal(c) == (CHOOSE i \in 1..10 : Digits[i] = c) - 1

\* n written in decimal, zero-padded to w digits
RECURSIVE PadNum(_, _)
PadNumBare(n, w) ==
    IF n < 10 THEN <<Digits[n + 1]>> ELSE PadNum(n \div 10, w - 1) \o <<Digits[(n % 10) + 1]>>
PadNum(n, w) ==
    IF w <= 1 /\ n < 10 THEN <<Digits[n + 1]>>
    ELSE PadNum(n \div 10, w - 1) \o <<Digits[(n % 10) + 1]>>

\* SecondsFormat::AutoSi: no fraction, or 3, 6 or 9 digits
FracText(nano) ==
    IF nano = 0 THEN <<>>
    ELSE IF nano % 1000000 = 0 THEN <<".">> \o PadNum(nano \div 1000000, 3)
    ELSE IF nano % 1000 = 0 THEN <<".">> \o PadNum(nano \div 1000, 6)
    ELSE <<".">> \o PadNum(nano, 9)

\* DateTime<Utc>::to_rfc3339(): the offset of Utc is written "+00:00"
ToRfc3339NoOffset(dt) ==
    PadNum(dt.year, 4) \o <<"-">> \o PadNum(dt.month, 2) \o <<"-">> \o PadNum(dt.day, 2)
       \o <<"T">> \o PadNum(dt.hour, 2) \o <<":">> \o PadNum(dt.minute, 2)
       \o <<":">> \o PadNum(dt.second, 2) \o FracText(dt.micro * 1000)
ToRfc3339(dt) ==
    PadNum(dt.year, 4) \o <<"-">> \o PadNum(dt.month, 2) \o <<"-">> \o PadNum(dt.day, 2)
       \o <<"T">> \o PadNum(dt.hour, 2) \o <<":">> \o PadNum(dt.minute, 2)
       \o <<":">> \o PadNum(dt.second, 2) \o FracText(dt.micro * 1000)
       \o <<"+", "0", "0", ":", "0", "0">>

\* The RFC 3339 grammar, date "T" time [fraction] offset, and the value a
\* string of that grammar denotes (what C8 is stated with).
AllDigits(s) == \A i \in 1..Len(s) : IsDigit(s[i])

RECURSIVE NumOf(_)
NumOf(s) == IF s = <<>> THEN 0 ELSE 10 * NumOf(SubSeq(s, 1, Len(s) - 1)) + DigitVal(s[Len(s)])

\* number of leading digits of s
RECURSIVE DigitRun(_)
DigitRun(s) == IF s # <<>> /\ IsDigit(Head(s)) THEN 1 + DigitRun(Tail(s)) ELSE 0

\* fraction digits (at most 9) as nanoseconds
RECURSIVE Pow10(_)
Pow10(k) == IF k = 0 THEN 1 ELSE 10 * Pow10(k - 1)
FracNanos(ds) == NumOf(ds) * Pow10(9 - Len(ds))

OffsetOk(o) ==
    \/ o = <<"Z">>
    \/ /\ Len(o) = 6
       /\ o[1] \in {"+", "-"}
       /\ AllDigits(SubSeq(o, 2, 3)) /\ o[4] = ":" /\ AllDigits(SubSeq(o, 5, 6))
       /\ NumOf(SubSeq(o, 2, 3)) <= 23 /\ NumOf(SubSeq(o, 5, 6)) <= 59

OffsetMinutes(o) ==
    IF o = <<"Z">> THEN 0
    ELSE (IF o[1] = "-" THEN -1 ELSE 1) * (60 * NumOf(SubSeq(o, 2, 3)) + NumOf(SubSeq(o, 5, 6)))

\* the part of s after the seconds: [fraction] offset
RestOf(s) == SubSeq(s, 20, Len(s))
FracLen(s) == IF RestOf(s) # <<>> /\ Head(RestOf(s)) = "." THEN DigitRun(Tail(RestOf(s))) ELSE 0
OffsetOf(s) ==
    IF FracLen(s) = 0 THEN RestOf(s) ELSE SubSeq(RestOf(s), 2 + FracLen(s), Len(RestOf(s)))

IsRfc3339(s) ==
    /\ Len(s) >= 20
    /\ AllDigits(SubSeq(s, 1, 4)) /\ s[5] = "-"
    /\ AllDigits(SubSeq(s, 6, 7)) /\ s[8] = "-"
    /\ AllDigits(SubSeq(s, 9, 10)) /\ s[11] \in {"T", "t"}
    /\ AllDigits(SubSeq(s, 12, 13)) /\ s[14] = ":"
    /\ AllDigits(SubSeq(s, 15, 16)) /\ s[17] = ":"
    /\ AllDigits(SubSeq(s, 18, 19))
    /\ NumOf(SubSeq(s, 6, 7)) \in 1..12
    /\ NumOf(SubSeq(s, 9, 10)) \in 1..31
    /\ NumOf(SubSeq(s, 12, 13)) \in 0..23
    /\ NumOf(SubSeq(s, 15, 16)) \in 0..59
    /\ NumOf(SubSeq(s, 18, 19)) \in 0..60
    /\ (Head(RestOf(s)) = "." => FracLen(s) \in 1..9)
    /\ OffsetOk(OffsetOf(s))

\* the local date-time and the offset a valid string denotes
ParseRfc3339(s) ==
    [year |-> NumOf(SubSeq(s, 1, 4)),
     month |-> NumOf(SubSeq(s, 6, 7)),
     day |-> NumOf(SubSeq(s, 9, 10)),
     hour |-> NumOf(SubSeq(s, 12, 13)),
     minute |-> NumOf(SubSeq(s, 15, 16)),
     second |-> NumOf(SubSeq(s, 18, 19)),
     nano |-> IF FracLen(s) = 0 THEN 0
              ELSE FracNanos(SubSeq(RestOf(s), 2, 1 + FracLen(s))),
     offset |-> OffsetMinutes(OffsetOf(s))]

----------------------------------------------------------------------------
(* Column values the coercions are applied to.                             *)

MaxBuildInt == 44
MaxTick == 3

Limbs5(n) == <<n % LimbBase, n \div LimbBase, 0, 0, 0>>

\* playtick / p_vote: int(11), read as i32
I32Inputs ==
    (0..MaxTick) \cup {-n : n \in 1..MaxTick}
       \cup {12345, -12345, LimbBase - 1, LimbBase, -LimbBase, -LimbBase - 1,
             I32Max, I32Min, I32Min + 1}

\* build_count: double.  Small values with every decimal fraction, and the
\* values around the top of u64 (2^53, 2^64 - 2048, 2^64, 2^70), which have none.
F64Inputs ==
    [neg : BOOLEAN, int : {Limbs5(n) : n \in 0..MaxBuildInt}, frac : 0..(FracScale - 1)]
       \cup [neg : BOOLEAN,
             int : {<<LimbBase - 1, LimbBase - 1, 0, 0, 0>>,
                    <<0, 0, 0, 32, 0>>,
                    <<LimbBase - 2048, LimbBase - 1, LimbBase - 1, LimbBase - 1, 0>>,
                    <<0, 0, 0, 0, 1>>,
                    <<0, 0, 0, 0, 64>>},
             frac : {0}]

\* lastquit: datetime (MySQL keeps years 1000..9999, microseconds at most)
DateTimeInputs ==
    [year : {1000, 1999, 2024, 9999}, month : {1, 2, 12}, day : {1, 9, 28},
     hour : {0, 7, 23}, minute : {0, 59}, second : {0, 5, 59},
     micro : {0, 120000, 5, 999999}]

CoerceInit ==
    /\ arg \in [col : {"playtick", "p_vote"}, v : I32Inputs]
                 \cup [col : {"build_count"}, v : F64Inputs]
                 \cup [col : {"lastquit"}, v : DateTimeInputs]
    /\ res = [done |-> FALSE]
    /\ kind = "none" /\ store = <<>> /\ netUp = TRUE /\ callers = {}
    /\ pc = <<>> /\ outcome = <<>> /\ snap = <<>> /\ selects = <<>>
    /\ inUse = 0
    /\ config = <<>> /\ account = <<>> /\ created = "none"

\* play_ticks: row.try_get::<i32, _>("playtick")? as u64
CoercePlayTicks ==
    /\ arg.col = "playtick" /\ ~res.done
    /\ res' = [done |-> TRUE, v |-> I32AsU64(arg.v)]
    /\ UNCHANGED <<arg, fetchVars, connVars>>

\* vote_count: row.try_get::<i32, _>("p_vote")? as u64
CoerceVoteCount ==
    /\ arg.col = "p_vote" /\ ~res.done
    /\ res' = [done |-> TRUE, v |-> I32AsU64(arg.v)]
    /\ UNCHANGED <<arg, fetchVars, connVars>>

\* build_count: row.try_get::<f64, _>("build_count")?.round() as u64
CoerceBuildCount ==
    /\ arg.col = "build_count" /\ ~res.done
    /\ res' = [done |-> TRUE, v |-> BuildCountOf(arg.v)]
    /\ UNCHANGED <<arg, fetchVars, connVars>>

\* rfc_3339_date_time: row.try_get::<DateTime<Utc>, _>("lastquit")?.to_rfc3339()
CoerceLastQuit ==
    /\ arg.col = "lastquit" /\ ~res.done
    /\ res' = [done |-> TRUE, v |-> ToRfc3339(arg.v)]
    /\ UNCHANGED <<arg, fetchVars, connVars>>

CoerceNext == CoercePlayTicks \/ CoerceVoteCount \/ CoerceBuildCount \/ CoerceLastQuit

CoerceSpec == CoerceInit /\ [][CoerceNext]_vars

----------------------------------------------------------------------------
(* C3: for play-ticks and vote-count the u64 in the record is v mod 2^64:  *)
(* a non-negative v is returned unchanged, a negative v gives 2^64 + v.    *)

\* r = v, for 0 <= v < 2^31
U64EqualsNat(r, v) ==
    /\ r[3] = 0 /\ r[4] = 0
    /\ r[2] < 2^15
    /\ r[2] * LimbBase + r[1] = v

\* r + (-v) = 2^64 for v < 0, stated on the complement: (2^64 - 1) - r = -(v + 1)
U64EqualsWrapped(r, v) ==
    U64EqualsNat(<<LimbBase - 1 - r[1], LimbBase - 1 - r[2],
                   LimbBase - 1 - r[3], LimbBase - 1 - r[4]>>, -(v + 1))

\* C3: the widened value is v mod 2^64 -- v itself when v >= 0, 2^64 + v when
\* v < 0 (12345 stays 12345, -1 becomes 18446744073709551615)
C3_WidenIsModulo ==
    (arg.col \in {"playtick", "p_vote"} /\ res.done) =>
        /\ arg.v >= 0 => U64EqualsNat(res.v, arg.v)
        /\ arg.v < 0 => U64EqualsWrapped(res.v, arg.v)
        /\ arg.v = 12345 => res.v = <<12345, 0, 0, 0>>
        /\ arg.v = -1 => res.v = U64Max

C3_Witness ==
    /\ arg.col = "p_vote" /\ arg.v = -1 /\ res.done
    /\ res.v = <<65535, 65535, 65535, 65535>>

----------------------------------------------------------------------------
(* C4: for build-count, a non-negative source value is rounded to the      *)
(* nearest integer, an exact half upwards (41.4 -> 41, 41.5 -> 42).        *)

\* r (five limbs) is the integer nearest to x, halves going up.  For values
\* below 2^16 this is the distance |r - x| <= 1/2 in units of 1/FracScale.
IsNearestHalfUp(r, x) ==
    IF x.int[2] = 0 /\ x.int[3] = 0 /\ x.int[4] = 0 /\ x.int[5] = 0 /\ x.int[1] < LimbBase - 1
    THEN /\ r[2] = 0 /\ r[3] = 0 /\ r[4] = 0 /\ r[5] = 0
         /\ 2 * (FracScale * r[1] - (FracScale * x.int[1] + x.frac)) <= FracScale
         /\ 2 * ((FracScale * x.int[1] + x.frac) - FracScale * r[1]) < FracScale
    ELSE \/ r = x.int /\ 2 * x.frac < FracScale
         \/ r = IncLimbs(x.int) /\ 2 * x.frac >= FracScale

\* the nearest integer of x is at most 2^64 - 1
FitsU64(x) ==
    /\ x.int[5] = 0
    /\ SubSeq(x.int, 1, 4) = U64Max => 2 * x.frac < FracScale

\* C4 as written: every non-negative source value gives its nearest integer,
\* halves going up
C4_NearestForEveryValue ==
    (arg.col = "build_count" /\ res.done /\ ~arg.v.neg) =>
        IsNearestHalfUp(res.v \o <<0>>, arg.v)

\* C4 amended: the nearest integer (halves going up) when that integer fits in
\* 64 bits, and the saturated value 2^64 - 1 when it does not
C4_NearestWhenInRange ==
    (arg.col = "build_count" /\ res.done /\ ~arg.v.neg) =>
        /\ FitsU64(arg.v) => IsNearestHalfUp(res.v \o <<0>>, arg.v)
        /\ ~FitsU64(arg.v) => res.v = U64Max
        /\ (arg.v.int = Limbs5(41) /\ arg.v.frac = 4) => res.v = <<41, 0, 0, 0>>
        /\ (arg.v.int = Limbs5(41) /\ arg.v.frac = 5) => res.v = <<42, 0, 0, 0>>

C4_Witness ==
    /\ arg.col = "build_count" /\ res.done
    /\ arg.v = [neg |-> FALSE, int |-> <<41, 0, 0, 0, 0>>, frac |-> 5]
    /\ res.v = <<42, 0, 0, 0>>

----------------------------------------------------------------------------
(* C8: for last-quit, the text in the record is a valid RFC 3339 string    *)
(* with a timezone offset, and reading it back gives the stored timestamp. *)

\* C8: the text is valid RFC 3339, ends in a timezone offset, and denotes the
\* stored date-time (read as UTC, as the fetcher reads the column)
C8_Rfc3339RoundTrip ==
    (arg.col = "lastquit" /\ res.done) =>
        /\ IsRfc3339(res.v)
        /\ OffsetOf(res.v) # <<>>
        /\ LET p == ParseRfc3339(res.v)
           IN  /\ p.offset = 0
               /\ p.year = arg.v.year /\ p.month = arg.v.month /\ p.day = arg.v.day
               /\ p.hour = arg.v.hour /\ p.minute = arg.v.minute
               /\ p.second = arg.v.second /\ p.nano = arg.v.micro * 1000

C8_Witness ==
    /\ arg.col = "lastquit" /\ res.done
    /\ arg.v = [year |-> 2024, month |-> 2, day |-> 9, hour |-> 7, minute |-> 0,
                second |-> 5, micro |-> 120000]
    /\ res.v = <<"2", "0", "2", "4", "-", "0", "2", "-", "0", "9", "T", "0", "7", ":",
                 "0", "0", ":", "0", "5", ".", "1", "2", "0", "+", "0", "0", ":", "0", "0">>

----------------------------------------------------------------------------
(* The playerdata table and the five fetchers.                             *)

MAX_CONNS == 5

Kinds == {"PlayerLastQuit", "PlayerBreakCount", "PlayerBuildCount",
          "PlayerPlayTicks", "PlayerVoteCount"}

\* the metric column each fetcher selects besides name and uuid
MetricColumn(k) ==
    CASE k = "PlayerLastQuit" -> "lastquit"
      [] k = "PlayerBreakCount" -> "totalbreaknum"
      [] k = "PlayerBuildCount" -> "build_count"
      [] k = "PlayerPlayTicks" -> "playtick"
      [] k = "PlayerVoteCount" -> "p_vote"

Null == [null |-> TRUE]
Val(v) == [null |-> FALSE, v |-> v]

Alice ==
    [uuid |-> Val("u-alice"), name |-> Val("alice"),
     lastquit |-> Val([year |-> 2024, month |-> 2, day |-> 9, hour |-> 7,
                       minute |-> 0, second |-> 5, micro |-> 0]),
     totalbreaknum |-> Val(<<100, 0, 0, 0>>),
     build_count |-> Val([neg |-> FALSE, int |-> <<41, 0, 0, 0, 0>>, frac |-> 5]),
     playtick |-> Val(12345), p_vote |-> Val(3)]

Bob ==
    [uuid |-> Val("u-bob"), name |-> Val("bob"),
     lastquit |-> Val([year |-> 1999, month |-> 12, day |-> 28, hour |-> 23,
                       minute |-> 59, second |-> 59, micro |-> 120000]),
     totalbreaknum |-> Val(<<0, 1, 0, 0>>),
     build_count |-> Val([neg |-> FALSE, int |-> <<41, 0, 0, 0, 0>>, frac |-> 4]),
     playtick |-> Val(-1), p_vote |-> Val(0)]

\* a row whose metric columns are partly NULL
Carol ==
    [uuid |-> Val("u-carol"), name |-> Val("carol"),
     lastquit |-> Null,
     totalbreaknum |-> Val(<<7, 0, 0, 0>>),
     build_count |-> Null,
     playtick |-> Val(1), p_vote |-> Null]

\* a row without uuid
Ghost ==
    [uuid |-> Null, name |-> Val("ghost"),
     lastquit |-> Val([year |-> 2024, month |-> 1, day |-> 1, hour |-> 0,
                       minute |-> 0, second |-> 0, micro |-> 0]),
     totalbreaknum |-> Val(<<1, 0, 0, 0>>),
     build_count |-> Val([neg |-> FALSE, int |-> <<0, 0, 0, 0, 0>>, frac |-> 0]),
     playtick |-> Val(0), p_vote |-> Val(0)]

RowSet == {Alice, Bob, Carol, Ghost}

\* row.try_get(col): the value, or a ColumnDecode error for the column
TryGetFails(row, col) == row[col].null
ColumnDecode(col) == [kind |-> "ColumnDecode", column |-> col]

\* per-variant coercion of the metric column
Coerce(k, v) ==
    CASE k = "PlayerLastQuit" -> ToRfc3339(v)
      [] k = "PlayerBreakCount" -> v
      [] k = "PlayerBuildCount" -> BuildCountOf(v)
      [] k = "PlayerPlayTicks" -> I32AsU64(v)
      [] k = "PlayerVoteCount" -> I32AsU64(v)

\* the closure given to try_map: uuid, then name, then the metric column; the
\* first try_get that fails is the closure's error
TryMap(k, row) ==
    IF TryGetFails(row, "uuid") THEN [ok |-> FALSE, error |-> ColumnDecode("uuid")]
    ELSE IF TryGetFails(row, "name") THEN [ok |-> FALSE, error |-> ColumnDecode("name")]
    ELSE IF TryGetFails(row, MetricColumn(k))
         THEN [ok |-> FALSE, error |-> ColumnDecode(MetricColumn(k))]
    ELSE [ok |-> TRUE,
          rec |-> [player |-> [uuid |-> row.uuid.v, last_known_name |-> row.name.v],
                   metric |-> Coerce(k, row[MetricColumn(k)].v)]]

Decodable(k, row) == TryMap(k, row).ok

\* what a connection delivers for the SELECT: rows, ended early by an I/O
\* error when the connection breaks
RowItem(row) == [io |-> FALSE, row |-> row]
IoItem == [io |-> TRUE]
Items(rows) == [i \in 1..Len(rows) |-> RowItem(rows[i])]

Ok(records) == [tag |-> "Ok", records |-> records, error |-> [kind |-> "none"]]
Err(e) == [tag |-> "Err", records |-> <<>>, error |-> e]
NoOutcome == [tag |-> "None", records |-> <<>>, error |-> [kind |-> "none"]]

\* fetch_all: map every item in order and collect; the first error ends it
RECURSIVE Collect(_, _, _)
Collect(k, items, acc) ==
    IF items = <<>> THEN Ok(acc)
    ELSE IF Head(items).io THEN Err([kind |-> "Io"])
    ELSE LET m == TryMap(k, Head(items).row)
         IN  IF m.ok THEN Collect(k, Tail(items), Append(acc, m.rec))
             ELSE Err(m.error)

\* variants a slip in the fetcher would give: keep what decodes, or build the
\* sequence back to front
RECURSIVE CollectLenient(_, _, _)
CollectLenient(k, items, acc) ==
    IF items = <<>> THEN Ok(acc)
    ELSE IF Head(items).io THEN Ok(acc)
    ELSE LET m == TryMap(k, Head(items).row)
         IN  IF m.ok THEN CollectLenient(k, Tail(items), Append(acc, m.rec))
             ELSE CollectLenient(k, Tail(items), acc)
FetchAllLenient(k, items) == CollectLenient(k, items, <<>>)

RECURSIVE CollectReversed(_, _, _)
CollectReversed(k, items, acc) ==
    IF items = <<>> THEN Ok(acc)
    ELSE IF Head(items).io THEN Err([kind |-> "Io"])
    ELSE LET m == TryMap(k, Head(items).row)
         IN  IF m.ok THEN CollectReversed(k, Tail(items), <<m.rec>> \o acc)
             ELSE Err(m.error)
FetchAllReversed(k, items) == CollectReversed(k, items, <<>>)

FetchAll(k, items) == Collect(k, items, <<>>)

----------------------------------------------------------------------------
(* fetch() through the pool.                                               *)

MaxRows == 2
FetchCalls == 2
ExtraCalls == 1

Stores == UNION {[1..n -> RowSet] : n \in 0..MaxRows}

Idle(cs) ==
    /\ callers = cs
    /\ pc = [c \in cs |-> "idle"]
    /\ outcome = [c \in cs |-> NoOutcome]
    /\ snap = [c \in cs |-> <<>>]
    /\ selects = [c \in cs |-> 0]
    /\ inUse = 0
    /\ arg = [col |-> "none"] /\ res = [done |-> FALSE]
    /\ config = <<>> /\ account = <<>> /\ created = "none"

Init ==
    /\ kind \in Kinds
    /\ store \in Stores
    /\ netUp = TRUE
    /\ Idle(1..FetchCalls)

\* fetch(&self): builds the one query of the variant and hands it to the pool
Fetch(c) ==
    /\ pc[c] = "idle"
    /\ pc' = [pc EXCEPT ![c] = "acquiring"]
    /\ selects' = [selects EXCEPT ![c] = @ + 1]
    /\ UNCHANGED <<kind, store, netUp, callers, outcome, snap, inUse,
                   coerceVars, connVars>>

\* the pool hands out a connection while fewer than MAX_CONNS are checked out
CanAcquireUnbounded == netUp
CanAcquire == netUp /\ inUse < MAX_CONNS
Acquire(c) ==
    /\ pc[c] = "acquiring"
    /\ CanAcquire
    /\ pc' = [pc EXCEPT ![c] = "running"]
    /\ inUse' = inUse + 1
    /\ UNCHANGED <<kind, store, netUp, callers, outcome, snap, selects,
                   coerceVars, connVars>>

\* a pool that rejected instead of queueing would fail a call at once
AcquireTimeoutEager(c) ==
    /\ pc[c] = "acquiring"
    /\ netUp
    /\ pc' = [pc EXCEPT ![c] = "done"]
    /\ outcome' = [outcome EXCEPT ![c] = Err([kind |-> "PoolTimedOut"])]
    /\ UNCHANGED <<kind, store, netUp, callers, snap, selects, inUse,
                   coerceVars, connVars>>

\* no connection came free within the pool's acquire timeout (PoolOptions::new()
\* leaves it at its default): the call ends with Error::PoolTimedOut
AcquireTimeout(c) ==
    /\ pc[c] = "acquiring"
    /\ netUp /\ inUse >= MAX_CONNS
    /\ pc' = [pc EXCEPT ![c] = "done"]
    /\ outcome' = [outcome EXCEPT ![c] = Err([kind |-> "PoolTimedOut"])]
    /\ UNCHANGED <<kind, store, netUp, callers, snap, selects, inUse,
                   coerceVars, connVars>>

\* a fetcher that kept the records of earlier calls would return them again
FetchResultRetained(k, items) ==
    LET now == FetchAll(k, items)
        earlier == {d \in callers : outcome[d].tag = "Ok"}
    IN  IF now.tag = "Ok" /\ earlier # {}
        THEN Ok(outcome[CHOOSE d \in earlier : TRUE].records \o now.records)
        ELSE now

\* the outcome fetch() returns for what the connection delivered:
\* .try_map(..).fetch_all(..).await.map_err(|e| anyhow!(e))
FetchResult(k, items) == FetchAll(k, items)

\* the store cannot be reached when a connection is to be opened: the call
\* gets the I/O error and no row
ConnectFail(c) ==
    /\ pc[c] = "acquiring"
    /\ ~netUp
    /\ snap' = [snap EXCEPT ![c] = <<IoItem>>]
    /\ outcome' = [outcome EXCEPT ![c] = FetchResult(kind, <<IoItem>>)]
    /\ pc' = [pc EXCEPT ![c] = "done"]
    /\ UNCHANGED <<kind, store, netUp, callers, selects, inUse, coerceVars, connVars>>

\* the store answers the SELECT with its rows; fetch_all maps and collects
\* them; the connection goes back to the pool
Complete(c) ==
    /\ pc[c] = "running"
    /\ netUp
    /\ snap' = [snap EXCEPT ![c] = Items(store)]
    /\ outcome' = [outcome EXCEPT ![c] = FetchResult(kind, Items(store))]
    /\ pc' = [pc EXCEPT ![c] = "done"]
    /\ inUse' = inUse - 1
    /\ UNCHANGED <<kind, store, netUp, callers, selects, coerceVars, connVars>>

\* a fetcher that retried would hand the query to the pool again on failure
QueryFailRetry(c) ==
    /\ pc[c] = "running"
    /\ ~netUp
    /\ selects[c] < 3
    /\ selects' = [selects EXCEPT ![c] = @ + 1]
    /\ UNCHANGED <<kind, store, netUp, callers, pc, outcome, snap, inUse,
                   coerceVars, connVars>>

\* the connection breaks after n rows of the answer arrived
QueryFail(c) ==
    /\ pc[c] = "running"
    /\ ~netUp
    /\ \E n \in 0..Len(store) :
          LET items == Items(SubSeq(store, 1, n)) \o <<IoItem>>
          IN  /\ snap' = [snap EXCEPT ![c] = items]
              /\ outcome' = [outcome EXCEPT ![c] = FetchResult(kind, items)]
    /\ pc' = [pc EXCEPT ![c] = "done"]
    /\ inUse' = inUse - 1
    /\ UNCHANGED <<kind, store, netUp, callers, selects, coerceVars, connVars>>

\* environment: the network to the store goes down
NetDown ==
    /\ netUp
    /\ netUp' = FALSE
    /\ UNCHANGED <<kind, store, callers, pc, outcome, snap, selects, inUse,
                   coerceVars, connVars>>

\* environment: the game server (the owner of playerdata) inserts a row
StoreWrite ==
    /\ Len(store) < MaxRows
    /\ \E r \in RowSet : store' = Append(store, r)
    /\ UNCHANGED <<kind, netUp, callers, pc, outcome, snap, selects, inUse,
                   coerceVars, connVars>>

Next ==
    \/ \E c \in callers : Fetch(c)
    \/ \E c \in callers : Acquire(c)
    \/ \E c \in callers : ConnectFail(c)
    \/ \E c \in callers : Complete(c)
    \/ \E c \in callers : QueryFail(c)
    \/ NetDown
    \/ StoreWrite

Spec == Init /\ [][Next]_vars

\* More than MAX_CONNS calls against a reachable store that holds decodable rows
\* and answers every query.
PoolInit ==
    /\ kind \in Kinds
    /\ store = <<Alice, Bob>>
    /\ netUp = TRUE
    /\ Idle(1..(MAX_CONNS + ExtraCalls))

PoolNext ==
    \/ \E c \in callers : Fetch(c)
    \/ \E c \in callers : Acquire(c)
    \/ \E c \in callers : AcquireTimeout(c)
    \/ \E c \in callers : Complete(c)

\* a step that moves some pending call forward
PoolProgress ==
    \E c \in callers : Acquire(c) \/ AcquireTimeout(c) \/ Complete(c)

\* the runtime keeps polling pending calls, the pool's timer fires, and the
\* store finishes the queries it was sent: while some call can move, one does
PoolFairness == WF_vars(PoolProgress)

PoolSpec == PoolInit /\ [][PoolNext]_vars

\* the same calls through the last-quit data source, with fairness
FairPoolInit == PoolInit /\ kind = "PlayerLastQuit"

FairPoolSpec == FairPoolInit /\ [][PoolNext]_vars /\ PoolFairness

----------------------------------------------------------------------------
(* C1: a successful fetch returns one record per returned row, in the      *)
(* store's order, the i-th record carrying the (uuid, name) of the i-th    *)
(* row.                                                                    *)

RecordsMatchRows(records, items) ==
    /\ Len(records) = Len(items)
    /\ \A i \in 1..Len(items) :
          /\ ~items[i].io
          /\ ~items[i].row.uuid.null /\ ~items[i].row.name.null
          /\ records[i].player.uuid = items[i].row.uuid.v
          /\ records[i].player.last_known_name = items[i].row.name.v

AllDecodable(k, items) ==
    \A i \in 1..Len(items) : ~items[i].io /\ Decodable(k, items[i].row)

\* C1: every Ok outcome has as many records as rows were returned, the i-th
\* with the uuid and name of the i-th row
C1_RowsKeptInOrder ==
    \A c \in callers :
        (pc[c] = "done" /\ outcome[c].tag = "Ok") => RecordsMatchRows(outcome[c].records, snap[c])

C1_Witness ==
    \E c \in callers :
        /\ pc[c] = "done" /\ outcome[c].tag = "Ok"
        /\ snap[c] = <<RowItem(Bob), RowItem(Alice)>>
        /\ outcome[c].records[1].player = [uuid |-> "u-bob", last_known_name |-> "bob"]
        /\ outcome[c].records[2].player = [uuid |-> "u-alice", last_known_name |-> "alice"]

----------------------------------------------------------------------------
(* C2: fetch is all-or-nothing: a row that fails to decode, at any         *)
(* position, or a connectivity failure, makes the call return one error    *)
(* and none of the records decoded before it.                              *)

\* C2: a call whose answer held an undecodable row or broke off with an I/O
\* error returned Err, and an Err carries no records
C2_AllOrNothing ==
    \A c \in callers :
        pc[c] = "done" =>
            /\ ~AllDecodable(kind, snap[c]) =>
                  (outcome[c].tag = "Err" /\ outcome[c].records = <<>>)
            /\ (/\ \E i \in 1..Len(snap[c]) : snap[c][i].io
                /\ \A i \in 1..Len(snap[c]) : snap[c][i].io \/ Decodable(kind, snap[c][i].row))
                  => outcome[c] = Err([kind |-> "Io"])
            /\ outcome[c].tag = "Err" => outcome[c].records = <<>>

C2_Witness ==
    \E c \in callers :
        /\ pc[c] = "done"
        /\ Len(snap[c]) = 2
        /\ ~snap[c][1].io /\ Decodable(kind, snap[c][1].row)
        /\ ~snap[c][2].io /\ snap[c][2].row.uuid.null
        /\ outcome[c] = Err(ColumnDecode("uuid"))

----------------------------------------------------------------------------
(* C9: every fetch hands exactly one SELECT to the pool and never retries: *)
(* a failure is the single outcome of the call.                            *)

\* C9: a call has handed exactly one query to the pool once it started, never
\* a second one, and ends with one outcome
C9_OneSelectNoRetry ==
    \A c \in callers :
        /\ selects[c] <= 1
        /\ pc[c] # "idle" => selects[c] = 1
        /\ pc[c] = "done" => outcome[c].tag \in {"Ok", "Err"}
        /\ pc[c] # "done" => outcome[c].tag = "None"

C9_Witness ==
    \E c \in callers :
        /\ pc[c] = "done" /\ outcome[c] = Err([kind |-> "Io"])
        /\ selects[c] = 1
        /\ Len(snap[c]) = 2

----------------------------------------------------------------------------
(* C10: fetch is read-only and stateless: no step of a fetch changes       *)
(* playerdata, and calls that were answered with the same rows return      *)
(* equal results.                                                          *)

SameRowsSameResult ==
    \A c \in callers : \A d \in callers :
        (pc[c] = "done" /\ pc[d] = "done" /\ snap[c] = snap[d]) => outcome[c] = outcome[d]

\* C10: a step of a fetch leaves playerdata as it was, and after it calls
\* answered with the same rows have equal results
C10_ReadOnlyStateless ==
    [][(\E c \in callers : pc'[c] # pc[c]) => (store' = store /\ SameRowsSameResult')]_vars

C10_Witness ==
    \E c \in callers : \E d \in callers :
        /\ c # d /\ pc[c] = "done" /\ pc[d] = "done"
        /\ snap[c] = <<RowItem(Alice)>> /\ snap[d] = snap[c]
        /\ outcome[c].tag = "Ok" /\ outcome[d] = outcome[c]
        /\ store = <<Alice>>

----------------------------------------------------------------------------
(* C5: at most MAX_CONNS queries are in flight on connections of the pool, *)
(* and a call that finds all of them in use holds none until one is        *)
(* released.                                                               *)

Running == {c \in callers : pc[c] = "running"}

\* C5: never more than 5 calls hold a connection, and a call waiting while 5
\* are held does not get one in that step
C5_AtMostFiveInFlight ==
    /\ [](Cardinality(Running) <= 5 /\ inUse = Cardinality(Running))
    /\ [][\A c \in callers :
             (pc[c] = "acquiring" /\ Cardinality(Running) = 5) => pc'[c] # "running"]_vars

C5_Witness ==
    /\ Cardinality(Running) = 5
    /\ \E c \in callers : pc[c] = "acquiring"

----------------------------------------------------------------------------
(* C6: with more than MAX_CONNS concurrent calls against a reachable       *)
(* store, every call eventually completes with its full result.            *)

FullResult(c) ==
    /\ outcome[c].tag = "Ok"
    /\ RecordsMatchRows(outcome[c].records, Items(store))

\* C6 as written: every completed call has its full result -- none fails
\* because the pool was saturated
C6_EveryCallSucceeds ==
    \A c \in callers : pc[c] = "done" => FullResult(c)

Pending == {c \in callers : pc[c] \in {"acquiring", "running"}}

\* C6 amended: every call completes (whenever calls are pending, a moment comes
\* when none is, and a pending call leaves that state only by completing); one
\* that got a connection has the full result; one fails only with PoolTimedOut,
\* and only after waiting on a pool whose connections were all in use
C6_EveryCallCompletes ==
    /\ (Pending # {}) ~> (Pending = {})
    /\ [](\A c \in callers :
            pc[c] = "done" => (FullResult(c) \/ outcome[c] = Err([kind |-> "PoolTimedOut"])))
    /\ [][\A c \in callers :
            /\ (c \in Pending /\ c \notin Pending') => pc'[c] = "done"
            /\ (pc[c] # "done" /\ pc'[c] = "done" /\ outcome'[c].tag = "Err")
                  => (pc[c] = "acquiring" /\ Cardinality(Running) = MAX_CONNS)]_vars

C6_Witness ==
    /\ \A c \in callers : pc[c] = "done"
    /\ Cardinality({c \in callers : FullResult(c)}) = MAX_CONNS + ExtraCalls

----------------------------------------------------------------------------
(* create_connection_pool and the five *_data_source constructors.         *)

MaxField == 2

\* characters a configured field is made of: a letter and the characters
\* that delimit the parts of a URI
FieldChars == {"a", "/", "@", ":"}
Fields == UNION {[1..n -> FieldChars] : n \in 1..MaxField}

\* format!("mysql://{user}:{pass}@{host}:{port}/{db}", ..)
ConnectionUri(cfg) ==
    <<"m", "y", "s", "q", "l", ":", "/", "/">>
       \o cfg.user \o <<":">> \o cfg.password \o <<"@">> \o cfg.host
       \o <<":">> \o PadNum(cfg.port, 1) \o <<"/">> \o cfg.database_name

\* index of the first / last element of s that is in cs (0: none)
FirstIn(s, cs) ==
    IF \E i \in 1..Len(s) : s[i] \in cs
    THEN CHOOSE i \in 1..Len(s) : s[i] \in cs /\ \A j \in 1..(i - 1) : s[j] \notin cs
    ELSE 0
LastIn(s, cs) ==
    IF \E i \in 1..Len(s) : s[i] \in cs
    THEN CHOOSE i \in 1..Len(s) : s[i] \in cs /\ \A j \in (i + 1)..Len(s) : s[j] \notin cs
    ELSE 0

RECURSIVE TrimSlashes(_)
TrimSlashes(s) == IF s # <<>> /\ Head(s) = "/" THEN TrimSlashes(Tail(s)) ELSE s

DefaultPort == 3306

\* .connect(uri): the URI is read back as a URL -- the authority ends at the
\* first "/", "?" or "#"; user information ends at its last "@" and is split at
\* its first ":"; the port follows the last ":" of the rest; the database is
\* the path without its leading "/"
ParseUri(uri) ==
    LET rest == SubSeq(uri, 9, Len(uri))
        cut == FirstIn(rest, {"/", "?", "#"})
        authority == IF cut = 0 THEN rest ELSE SubSeq(rest, 1, cut - 1)
        tail == IF cut = 0 THEN <<>> ELSE SubSeq(rest, cut, Len(rest))
        at == LastIn(authority, {"@"})
        userinfo == IF at = 0 THEN <<>> ELSE SubSeq(authority, 1, at - 1)
        hostport == SubSeq(authority, at + 1, Len(authority))
        colon == FirstIn(userinfo, {":"})
        pcolon == LastIn(hostport, {":"})
        hostText == IF pcolon = 0 THEN hostport ELSE SubSeq(hostport, 1, pcolon - 1)
        portText == IF pcolon = 0 THEN <<>> ELSE SubSeq(hostport, pcolon + 1, Len(hostport))
        query == FirstIn(tail, {"?", "#"})
        path == IF query = 0 THEN tail ELSE SubSeq(tail, 1, query - 1)
    IN  [ok |-> /\ hostText # <<>>
                /\ \A i \in 1..Len(hostText) : hostText[i] \notin {":", "@", "/"}
                /\ AllDigits(portText) /\ Len(portText) <= 4,
         user |-> IF colon = 0 THEN userinfo ELSE SubSeq(userinfo, 1, colon - 1),
         password |-> IF colon = 0 THEN <<>> ELSE SubSeq(userinfo, colon + 1, Len(userinfo)),
         host |-> hostText,
         port |-> IF AllDigits(portText) /\ portText # <<>> /\ Len(portText) <= 4
                  THEN NumOf(portText) ELSE DefaultPort,
         database |-> TrimSlashes(path)]

\* MySqlPoolOptions::new().max_connections(MAX_CONNS).connect(uri).await:
\* the pool opens its first connection with what the URI says
Connect(uri) ==
    LET o == ParseUri(uri)
    IN  IF ~o.ok THEN "Configuration"
        ELSE IF ~netUp \/ o.host # account.host \/ o.port # account.port THEN "Io"
        ELSE IF o.user # account.user \/ o.password # account.password THEN "AccessDenied"
        ELSE IF o.database # <<>> /\ o.database # account.database THEN "UnknownDatabase"
        ELSE "Connected"

\* create_connection_pool(config): Ok(pool) or the connect error
create_connection_pool(cfg) == Connect(ConnectionUri(cfg))

ConnInit ==
    /\ netUp \in BOOLEAN
    /\ account \in [user : {<<"a">>}, password : Fields, host : {<<"a", "a">>},
                    port : {DefaultPort}, database : {<<"a">>}]
    /\ config \in [user : {<<"a">>, <<"a", "a">>}, password : Fields, host : {<<"a", "a">>},
                   port : {DefaultPort}, database_name : {<<"a">>, <<"a", "a">>}]
    /\ created = [tag |-> "None", kind |-> "none", error |-> "none"]
    /\ kind = "none" /\ store = <<>> /\ callers = {}
    /\ pc = <<>> /\ outcome = <<>> /\ snap = <<>> /\ selects = <<>> /\ inUse = 0
    /\ arg = [col |-> "none"] /\ res = [done |-> FALSE]

\* last_quit_data_source, break_count_data_source, build_count_data_source,
\* play_ticks_data_source, vote_count_data_source:
\*   let connection_pool = create_connection_pool(config).await?;
\*   Ok(MySqlDataSource { connection_pool })
DataSource(k) ==
    /\ created.tag = "None"
    /\ LET r == create_connection_pool(config)
       IN  created' = IF r = "Connected"
                      THEN [tag |-> "Ok", kind |-> k, error |-> "none"]
                      ELSE [tag |-> "Err", kind |-> "none", error |-> r]
    /\ UNCHANGED <<config, account, fetchVars, coerceVars>>

ConnNext == \E k \in Kinds : DataSource(k)

ConnSpec == ConnInit /\ [][ConnNext]_vars

----------------------------------------------------------------------------
(* C7: a constructor returns a fetcher if and only if the store is         *)
(* reachable, the configured credentials are the ones the store accepts    *)
(* and the configured database exists; otherwise it returns an error.      *)

ConfigValid ==
    /\ netUp
    /\ config.host = account.host /\ config.port = account.port
    /\ config.user = account.user /\ config.password = account.password
    /\ config.database_name = account.database

\* C7: a constructor that returned gave a fetcher exactly when the store is
\* reachable and the configured credentials and database are valid
C7_CreatedIffValid ==
    created.tag # "None" => (created.tag = "Ok" <=> ConfigValid)

====
